---------------------------- MODULE Spec2Model ----------------------------
(***************************************************************************)
(* Model of the sorted-groups crate (src/src/lib.rs): SortedGroups, a      *)
(* BTreeMap from group key to BTreeSet of elements, and SortedGroupsIter,  *)
(* the two-level cursor that flattens it.                                  *)
(*                                                                         *)
(* A BTreeMap is modelled as the sequence of its entries in ascending key  *)
(* order, a BTreeSet as the sequence of its stored instances in ascending  *)
(* element order, and a std iterator over either as the borrowed sequence  *)
(* with the position of the next item.                                     *)
(***************************************************************************)
EXTENDS Integers, Sequences, FiniteSets, TLC

\* Element order values are 1..MaxOrd.
MaxOrd == 3
\* At most MaxInserts elements are ever handed to the container.
MaxInserts == 3
\* next() is called at most MaxNones times after the iterator is exhausted.
MaxNones == 2

\* Data of an element that its Ord implementation does not read.
Tags == {0, 1}

\* E: an element is a value with a total order (ord) and further data (tag).
Element == [ord : 1..MaxOrd, tag : Tags]

\* E: Ord  --  Ord::cmp of two elements: -1 Less, 0 Equal, 1 Greater.
Cmp(a, b) == IF a.ord < b.ord THEN -1 ELSE IF a.ord > b.ord THEN 1 ELSE 0

\* F: Fn(&E) -> G  --  the key functions a caller may construct the container
\* with; G is the integers.  The second reads only data the order ignores.
KeyFns ==
  { [e \in Element |-> e.ord \div 2],
    [e \in Element |-> e.tag],
    [e \in Element |-> (MaxOrd - e.ord) \div 2],
    [e \in Element |-> 0] }

\* Option<T>
None == [some |-> FALSE]
Some(x) == [some |-> TRUE, val |-> x]

VARIABLES
  groups,              \* self.groups: BTreeMap<G, BTreeSet<E>>
  group_from_element,  \* self.group_from_element: F
  borrowed,            \* TRUE while a SortedGroupsIter borrows the container
  groups_iter,         \* SortedGroupsIter.groups_iter
  current_group,       \* SortedGroupsIter.current_group
  ret,                 \* what the last next() returned
  calls,               \* number of next() calls on the live iterator
  nones,               \* number of those calls that returned None
  steps,               \* loop iterations the last next() executed
  yielded,             \* the items the live iterator returned, in order
  hist                 \* the elements inserted so far, in call order

vars == <<groups, group_from_element, borrowed, groups_iter, current_group,
          ret, calls, nones, steps, yielded, hist>>

---------------------------------------------------------------------------
\* std collections

\* BTreeSet::insert with the new value replacing an equal stored one.
BTreeSetInsert_Replace(s, e) ==
  IF \E i \in 1..Len(s) : Cmp(s[i], e) = 0
    THEN [i \in 1..Len(s) |-> IF Cmp(s[i], e) = 0 THEN e ELSE s[i]]
    ELSE LET k == Cardinality({i \in 1..Len(s) : Cmp(s[i], e) < 0})
         IN  SubSeq(s, 1, k) \o <<e>> \o SubSeq(s, k + 1, Len(s))

\* BTreeSet::insert that adds the value even when an equal one is stored.
BTreeSetInsert_NoDedup(s, e) ==
  LET k == Cardinality({i \in 1..Len(s) : Cmp(s[i], e) < 0})
  IN  SubSeq(s, 1, k) \o <<e>> \o SubSeq(s, k + 1, Len(s))

\* BTreeSet::insert that puts a new value last instead of in order.
BTreeSetInsert_Append(s, e) ==
  IF \E i \in 1..Len(s) : Cmp(s[i], e) = 0 THEN s ELSE Append(s, e)

\* BTreeSet::insert: a value equal to a stored one leaves the set as it is
\* (the stored entry is not updated); otherwise the value goes to its place
\* in ascending order.
BTreeSetInsert(s, e) ==
  IF \E i \in 1..Len(s) : Cmp(s[i], e) = 0
    THEN s
    ELSE LET k == Cardinality({i \in 1..Len(s) : Cmp(s[i], e) < 0})
         IN  SubSeq(s, 1, k) \o <<e>> \o SubSeq(s, k + 1, Len(s))

\* The index of key k in map m, 0 when absent.
IndexOf(m, k) ==
  IF \E i \in 1..Len(m) : m[i].key = k
    THEN CHOOSE i \in 1..Len(m) : m[i].key = k
    ELSE 0

\* entry(k).or_default() that resets the group of a key already present.
EntryOrDefault_Reset(m, k) ==
  IF \E i \in 1..Len(m) : m[i].key = k
    THEN [i \in 1..Len(m) |-> IF m[i].key = k THEN [key |-> k, set |-> <<>>] ELSE m[i]]
    ELSE LET n == Cardinality({i \in 1..Len(m) : m[i].key < k})
         IN  SubSeq(m, 1, n) \o <<[key |-> k, set |-> <<>>]>> \o SubSeq(m, n + 1, Len(m))

\* entry(k).or_default() that adds an entry even when the key is present.
EntryOrDefault_Always(m, k) ==
  LET n == Cardinality({i \in 1..Len(m) : m[i].key < k})
  IN  SubSeq(m, 1, n) \o <<[key |-> k, set |-> <<>>]>> \o SubSeq(m, n + 1, Len(m))

\* BTreeMap::entry(k).or_default(): the map with an empty set under k when k
\* was absent, placed in ascending key order; unchanged when k is present.
EntryOrDefault(m, k) ==
  IF \E i \in 1..Len(m) : m[i].key = k
    THEN m
    ELSE LET n == Cardinality({i \in 1..Len(m) : m[i].key < k})
         IN  SubSeq(m, 1, n) \o <<[key |-> k, set |-> <<>>]>> \o SubSeq(m, n + 1, Len(m))

\* Iterator::next of btree_map::Iter and btree_set::Iter: <<item, iterator'>>.
IterNext(it) ==
  IF it.pos <= Len(it.items)
    THEN <<Some(it.items[it.pos]), [it EXCEPT !.pos = @ + 1]>>
    ELSE <<None, it>>

\* The group stored under key k, empty when there is none.
GroupOf(m, k) == IF IndexOf(m, k) = 0 THEN <<>> ELSE m[IndexOf(m, k)].set

KeysOf(m) == {m[i].key : i \in 1..Len(m)}

\* BTreeMap::iter / BTreeSet::iter
IterOf(items) == [items |-> items, pos |-> 1]

---------------------------------------------------------------------------
\* SortedGroups

\* new() that starts with a group already present.
NewGroups_Seeded == <<[key |-> 0, set |-> <<>>]>>

\* SortedGroups::new: groups: BTreeMap::new()
NewGroups == <<>>

\* insert that files the element under the first group present.
InsertGroups_FirstGroup(m, f, e) ==
  LET k  == IF Len(m) > 0 THEN m[1].key ELSE f[e]
      m1 == EntryOrDefault(m, k)
      i  == IndexOf(m1, k)
  IN  [m1 EXCEPT ![i].set = BTreeSetInsert(@, e)]

\* SortedGroups::insert on the map m with key function f.
InsertGroups(m, f, e) ==
  LET k  == f[e]
      m1 == EntryOrDefault(m, k)
      i  == IndexOf(m1, k)
  IN  [m1 EXCEPT ![i].set = BTreeSetInsert(@, e)]

\* SortedGroups::from_iter: insert each element of the input in order.
RECURSIVE FromIter(_, _, _)
FromIter(m, f, elements) ==
  IF elements = <<>>
    THEN m
    ELSE FromIter(InsertGroups(m, f, Head(elements)), f, Tail(elements))

\* SortedGroups::len: the sum of the groups' sizes.
RECURSIVE SumLens(_)
SumLens(m) == IF m = <<>> THEN 0 ELSE Len(Head(m).set) + SumLens(Tail(m))

len == SumLens(groups)

\* SortedGroups::groups_len
groups_len == Len(groups)

---------------------------------------------------------------------------
\* SortedGroupsIter

\* .map(|(g, v)| (g, v.iter())) on the entry groups_iter.next() returned.
MapEntry(o) ==
  IF o.some THEN Some([group |-> o.val.key, iter |-> IterOf(o.val.set)]) ELSE None

\* next() that gives up when the current group is exhausted.
NextLoop_Stop(gi, cg, n) ==
  IF cg.some
    THEN LET r == IterNext(cg.val.iter)
         IN  IF r[1].some
               THEN [ret |-> Some(<<cg.val.group, r[1].val>>),
                     groups_iter |-> gi,
                     current_group |-> Some([group |-> cg.val.group, iter |-> r[2]]),
                     steps |-> n + 1]
               ELSE [ret |-> None, groups_iter |-> gi, current_group |-> None,
                     steps |-> n + 1]
    ELSE [ret |-> None, groups_iter |-> gi, current_group |-> cg, steps |-> n + 1]

\* SortedGroupsIter::next: the loop, from the iterator state (gi, cg) after n
\* iterations; the result is the return value, the iterator state left
\* behind and the number of iterations executed.
RECURSIVE NextLoop(_, _, _)
NextLoop(gi, cg, n) ==
  IF cg.some
    THEN LET r == IterNext(cg.val.iter)
         IN  IF r[1].some
               THEN [ret |-> Some(<<cg.val.group, r[1].val>>),
                     groups_iter |-> gi,
                     current_group |-> Some([group |-> cg.val.group, iter |-> r[2]]),
                     steps |-> n + 1]
               ELSE LET g == IterNext(gi)
                    IN  NextLoop(g[2], MapEntry(g[1]), n + 1)
    ELSE [ret |-> None, groups_iter |-> gi, current_group |-> cg, steps |-> n + 1]

---------------------------------------------------------------------------
\* The state machine

\* Sequences over S of length at most n.
SeqsUpTo(S, n) == UNION {[1..k -> S] : k \in 0..n}

NoIter ==
  /\ borrowed = FALSE
  /\ groups_iter = IterOf(<<>>)
  /\ current_group = None
  /\ ret = None
  /\ calls = 0
  /\ nones = 0
  /\ steps = 0
  /\ yielded = <<>>

\* The fields of SortedGroups and SortedGroupsIter, and the bookkeeping of
\* the calls made.
TypeOK ==
  /\ group_from_element \in KeyFns
  /\ \A i \in 1..Len(groups) :
       /\ groups[i].key \in Int
       /\ \A j \in 1..Len(groups[i].set) : groups[i].set[j] \in Element
  /\ borrowed \in BOOLEAN
  /\ groups_iter.pos \in 1..(Len(groups_iter.items) + 1)
  /\ borrowed => groups_iter.items = groups
  /\ current_group.some =>
       /\ current_group.val.group \in KeysOf(groups)
       /\ current_group.val.iter.items = GroupOf(groups, current_group.val.group)
  /\ ret.some \in BOOLEAN
  /\ calls \in Nat /\ nones \in 0..MaxNones /\ steps \in Nat
  /\ Len(yielded) <= calls
  /\ Len(hist) <= MaxInserts
  /\ \A i \in 1..Len(hist) : hist[i] \in Element

\* SortedGroups::new(key_fn)
Init ==
  /\ group_from_element \in KeyFns
  /\ groups = NewGroups
  /\ hist = <<>>
  /\ NoIter

\* sorted_groups.insert(e); &mut self: no iterator borrows the container.
insert(e) ==
  /\ ~borrowed
  /\ Len(hist) < MaxInserts
  /\ groups' = InsertGroups(groups, group_from_element, e)
  /\ hist' = Append(hist, e)
  /\ UNCHANGED <<group_from_element, borrowed, groups_iter, current_group,
                 ret, calls, nones, steps, yielded>>

\* SortedGroups::from_iter(elements, key_fn): a constructor, so it acts on
\* nothing but the key function; the input is any sequence of elements.
from_iter ==
  /\ ~borrowed
  /\ hist = <<>>
  /\ \E elements \in SeqsUpTo(Element, MaxInserts) :
       /\ groups' = FromIter(NewGroups, group_from_element, elements)
       /\ hist' = elements
  /\ UNCHANGED <<group_from_element, borrowed, groups_iter, current_group,
                 ret, calls, nones, steps, yielded>>

\* sorted_groups.iter()
iter ==
  /\ ~borrowed
  /\ LET g == IterNext(IterOf(groups))
     IN  /\ groups_iter' = g[2]
         /\ current_group' = MapEntry(g[1])
  /\ borrowed' = TRUE
  /\ UNCHANGED <<groups, group_from_element, ret, calls, nones, steps,
                 yielded, hist>>

\* iter.next()
next ==
  /\ borrowed
  /\ nones < MaxNones
  /\ LET r == NextLoop(groups_iter, current_group, 0)
     IN  /\ ret' = r.ret
         /\ groups_iter' = r.groups_iter
         /\ current_group' = r.current_group
         /\ steps' = r.steps
         /\ yielded' = IF r.ret.some THEN Append(yielded, r.ret.val) ELSE yielded
         /\ nones' = IF r.ret.some THEN nones ELSE nones + 1
  /\ calls' = calls + 1
  /\ UNCHANGED <<groups, group_from_element, borrowed, hist>>

\* The iterator goes out of scope and the borrow ends.
DropIter ==
  /\ borrowed
  /\ borrowed' = FALSE
  /\ groups_iter' = IterOf(<<>>)
  /\ current_group' = None
  /\ ret' = None
  /\ calls' = 0
  /\ nones' = 0
  /\ steps' = 0
  /\ yielded' = <<>>
  /\ UNCHANGED <<groups, group_from_element, hist>>

Next ==
  \/ \E e \in Element : insert(e)
  \/ from_iter
  \/ iter
  \/ next
  \/ DropIter

Spec == Init /\ [][Next]_vars

---------------------------------------------------------------------------
\* Vocabulary of the properties

KeyOf(e) == group_from_element[e]

\* The elements inserted so far.
Inserted == {hist[i] : i \in 1..Len(hist)}

\* The (group key, stored instance) pairs the mapping holds.
PairsOf(m) == UNION {{<<m[i].key, m[i].set[j]>> : j \in 1..Len(m[i].set)} : i \in 1..Len(m)}

StoredPairs == PairsOf(groups)


\* Group-major, element-minor strict order of two yielded pairs.
PairLess(p, q) == p[1] < q[1] \/ (p[1] = q[1] /\ Cmp(p[2], q[2]) < 0)

\* The key function gives order-equal elements the same group key.
KeyRespectsOrder ==
  \A a, b \in Element : Cmp(a, b) = 0 => KeyOf(a) = KeyOf(b)

\* The last step was insert(e) for the last element of hist'.
InsertStep ==
  /\ Len(hist') = Len(hist) + 1
  /\ SubSeq(hist', 1, Len(hist)) = hist

Perms(n) == {p \in [1..n -> 1..n] : \A i, j \in 1..n : p[i] = p[j] => i = j}

---------------------------------------------------------------------------
\* C1: an iterator driven to None has yielded every stored (key, element)
\* pair exactly once, in ascending key order and, within a key, in strictly
\* ascending element order, whatever the insertion order was; every prefix
\* it yields on the way is ordered the same way.
C1_IterSortedComplete ==
  borrowed =>
    /\ \A i, j \in 1..Len(yielded) : i < j => PairLess(yielded[i], yielded[j])
    /\ \A i \in 1..Len(yielded) : yielded[i] \in StoredPairs
    /\ nones > 0 =>
         /\ {yielded[i] : i \in 1..Len(yielded)} = StoredPairs
         /\ Len(yielded) = len
         /\ \A h \in Inserted :
              \E i \in 1..Len(yielded) :
                yielded[i][1] = KeyOf(h) /\ Cmp(yielded[i][2], h) = 0

\* A group-2 element was inserted before two group-1 elements and the
\* iterator ran to None over a group of two and a group of one.
C1_Witness ==
  /\ borrowed /\ nones > 0
  /\ Len(hist) = 3 /\ Len(yielded) = 3
  /\ KeyOf(hist[1]) > KeyOf(hist[2])
  /\ KeyOf(hist[2]) = KeyOf(hist[3])
  /\ Cmp(hist[2], hist[3]) > 0
  /\ yielded = <<<<KeyOf(hist[3]), hist[3]>>, <<KeyOf(hist[2]), hist[2]>>,
                 <<KeyOf(hist[1]), hist[1]>>>>

\* C2 as stated: len() is the number of distinct inserted elements under the
\* element's equality.
C2_LenDistinctElements ==
  len = Cardinality({{g \in Inserted : Cmp(g, h) = 0} : h \in Inserted})

\* C2 amended: len() is the number of distinct (group key, element) pairs
\* inserted, elements compared under their order, which is the number of
\* distinct elements when the key function gives order-equal elements the
\* same key; and it is the number of stored pairs.
C2_LenDistinctPerGroup ==
  /\ len = Cardinality({{g \in Inserted : Cmp(g, h) = 0 /\ KeyOf(g) = KeyOf(h)} :
                          h \in Inserted})
  /\ KeyRespectsOrder =>
       len = Cardinality({{g \in Inserted : Cmp(g, h) = 0} : h \in Inserted})
  /\ len = Cardinality(StoredPairs)

\* Three inserts, two of them order-equal in one group, collapsed to two.
C2_Witness ==
  /\ Len(hist) = 3
  /\ len = 2
  /\ \E i, j \in 1..3 :
       i < j /\ hist[i] # hist[j] /\ Cmp(hist[i], hist[j]) = 0
             /\ KeyOf(hist[i]) = KeyOf(hist[j])

\* C3: groups_len() is the number of distinct keys of the inserted elements,
\* the keys present are exactly those, and no group present is empty.
C3_GroupsLenDistinctKeys ==
  /\ groups_len = Cardinality({KeyOf(h) : h \in Inserted})
  /\ KeysOf(groups) = {KeyOf(h) : h \in Inserted}
  /\ \A i \in 1..Len(groups) : Len(groups[i].set) >= 1

C3_Witness ==
  /\ Len(hist) = 3
  /\ groups_len = 2
  /\ len = 3

\* C4 as stated: an insert of e leaves len() and groups_len() as they were
\* when the container holds an element order-equal to e, and adds one to
\* len() otherwise.
C4_InsertIdempotent ==
  [][InsertStep =>
       LET e == hist'[Len(hist')]
       IN  IF \E p \in StoredPairs : Cmp(p[2], e) = 0
             THEN len' = len /\ groups_len' = groups_len
             ELSE len' = len + 1]_vars

\* C4 amended: an insert of e leaves the container as it was when the group
\* of key_of(e) holds an element order-equal to e, and adds one to len()
\* otherwise; with a key function that gives order-equal elements the same
\* key this is the claim as stated.
C4_InsertIdempotentInGroup ==
  [][InsertStep =>
       LET e == hist'[Len(hist')]
           g == GroupOf(groups, KeyOf(e))
       IN  /\ IF \E i \in 1..Len(g) : Cmp(g[i], e) = 0
                THEN groups' = groups /\ len' = len /\ groups_len' = groups_len
                ELSE len' = len + 1
           /\ KeyRespectsOrder =>
                IF \E p \in StoredPairs : Cmp(p[2], e) = 0
                  THEN len' = len /\ groups_len' = groups_len
                  ELSE len' = len + 1]_vars

\* An element was inserted twice in a row (two order-equal instances of one
\* group) into a container that did not hold it, and len() grew by one.
C4_Witness ==
  /\ Len(hist) = 3
  /\ hist[2] # hist[3]
  /\ Cmp(hist[2], hist[3]) = 0
  /\ KeyOf(hist[2]) = KeyOf(hist[3])
  /\ Cmp(hist[1], hist[2]) # 0
  /\ len = 2

\* C5: when no two inserted elements are order-equal, building the container
\* from any permutation of the input gives the same mapping; and two inserts
\* of elements that are not order-equal commute in every reachable container
\* that accepts an insert (none is possible while an iterator borrows it).
C5_OrderIndependent ==
  ~borrowed =>
    /\ (\A i, j \in 1..Len(hist) : i # j => Cmp(hist[i], hist[j]) # 0) =>
         \A p \in Perms(Len(hist)) :
           FromIter(NewGroups, group_from_element,
                    [i \in 1..Len(hist) |-> hist[p[i]]]) = groups
    /\ \A a, b \in Element :
         Cmp(a, b) < 0 =>
           InsertGroups(InsertGroups(groups, group_from_element, a), group_from_element, b)
             = InsertGroups(InsertGroups(groups, group_from_element, b), group_from_element, a)

\* Three pairwise distinct elements of two groups, inserted out of order.
C5_Witness ==
  /\ ~borrowed
  /\ Len(hist) = 3
  /\ len = 3
  /\ groups_len = 2
  /\ Cmp(hist[1], hist[2]) > 0
  /\ KeyOf(hist[1]) > KeyOf(hist[3])

\* C6 as stated: the instance a group retains is the last one inserted among
\* the order-equal elements of that group.
C6_LastWriteWins ==
  \A p \in StoredPairs :
    \E i \in 1..Len(hist) :
      /\ hist[i] = p[2]
      /\ \A j \in (i + 1)..Len(hist) :
           ~(KeyOf(hist[j]) = p[1] /\ Cmp(hist[j], p[2]) = 0)

\* C6 amended: the instance a group retains is the first one inserted among
\* the order-equal elements of that group; a later one is dropped.
C6_FirstWriteWins ==
  \A p \in StoredPairs :
    \E i \in 1..Len(hist) :
      /\ hist[i] = p[2]
      /\ KeyOf(hist[i]) = p[1]
      /\ \A j \in 1..(i - 1) :
           ~(KeyOf(hist[j]) = p[1] /\ Cmp(hist[j], p[2]) = 0)

\* Two order-equal instances that differ in the data the order ignores were
\* inserted into one group.
C6_Witness ==
  /\ Len(hist) >= 2
  /\ hist[1] # hist[2]
  /\ Cmp(hist[1], hist[2]) = 0
  /\ KeyOf(hist[1]) = KeyOf(hist[2])
  /\ <<KeyOf(hist[1]), hist[1]>> \in StoredPairs

\* C7: every element stored in the group under key k has key_of(e) = k, so
\* no stored instance is under two keys.
C7_StoredUnderOwnKey ==
  /\ \A i \in 1..Len(groups) :
       \A j \in 1..Len(groups[i].set) : KeyOf(groups[i].set[j]) = groups[i].key
  /\ \A p, q \in StoredPairs : p[2] = q[2] => p[1] = q[1]

C7_Witness ==
  /\ groups_len = 2
  /\ len = 3
  /\ \E p, q \in StoredPairs : p[1] # q[1] /\ Cmp(p[2], q[2]) = 0

\* C8: with no insert performed len() and groups_len() are 0 and every
\* next() on iter(), the first included, returns None after one loop step.
C8_EmptyContainer ==
  hist = <<>> =>
    /\ len = 0
    /\ groups_len = 0
    /\ borrowed => current_group = None
    /\ (borrowed /\ calls >= 1) =>
         ret = None /\ yielded = <<>> /\ nones = calls /\ steps = 1

C8_Witness ==
  /\ hist = <<>>
  /\ borrowed
  /\ calls = 1
  /\ ret = None

\* C9: a next() call runs at most groups_len() + 1 loop steps; it returns
\* Some on each of the first len() calls and None on the next, and after a
\* None every further next() returns None.
C9_IterTerminates ==
  /\ [](borrowed =>
          /\ steps <= groups_len + 1
          /\ Len(yielded) + nones = calls
          /\ Len(yielded) <= len
          /\ (calls >= 1 /\ ret.some) => (nones = 0 /\ calls <= len)
          /\ nones > 0 => (Len(yielded) = len /\ ~ret.some))
  /\ [][(borrowed /\ nones > 0 /\ calls' = calls + 1) =>
          (~ret'.some /\ yielded' = yielded /\ current_group' = None)]_vars

\* The iterator over two groups returned Some three times, then None twice.
C9_Witness ==
  /\ borrowed
  /\ groups_len = 2
  /\ Len(yielded) = 3
  /\ nones = 2
  /\ calls = 5

\* C10: insert(e) leaves every group but that of key_of(e) as it was, makes
\* the group of key_of(e) present and holding an element order-equal to e
\* (e itself when it held none), and keeps every stored pair stored.
C10_InsertFrame ==
  [][InsertStep =>
       LET e == hist'[Len(hist')]
           k == KeyOf(e)
       IN  /\ KeysOf(groups') = KeysOf(groups) \cup {k}
           /\ Len(groups') = Cardinality(KeysOf(groups'))
           /\ \A j \in KeysOf(groups) \ {k} : GroupOf(groups', j) = GroupOf(groups, j)
           /\ StoredPairs \subseteq StoredPairs'
           /\ StoredPairs' \subseteq StoredPairs \cup {<<k, e>>}
           /\ \E p \in StoredPairs' : p[1] = k /\ Cmp(p[2], e) = 0
           /\ (\A p \in StoredPairs : ~(p[1] = k /\ Cmp(p[2], e) = 0)) =>
                <<k, e>> \in StoredPairs']_vars

\* The third insert went into a group that already held an element while
\* another group was present.
C10_Witness ==
  /\ Len(hist) = 3
  /\ groups_len = 2
  /\ len = 3
  /\ KeyOf(hist[3]) = KeyOf(hist[1])
  /\ KeyOf(hist[2]) # KeyOf(hist[1])

============================================================================
